---- MODULE Spec2Model ----
(***************************************************************************)
(* Guest side of the WAFER/WAFFLE block ABI: the exported entry points     *)
(* (info, handle, lifecycle, malloc), the pinned-buffer registry, the      *)
(* packed pointer/length convention and the JSON wire codec.               *)
(*                                                                         *)
(* Representation of Go values:                                            *)
(*   string            a TLA+ string                                       *)
(*   []byte            a sequence of 0..255; the nil slice is NilBytes     *)
(*   base64 text       a sequence of symbols: 0..63 the standard alphabet, *)
(*                     64 the padding '=', 65 a byte outside the alphabet  *)
(*   map[string]string a function from a set of strings; nil is NilMap     *)
(*   [][]string        a sequence of sequences of strings; nil is NilMeta  *)
(*   *T                a record with nil |-> FALSE, or [nil |-> TRUE]      *)
(*   uint32            two 16-bit limbs <<hi, lo>>                         *)
(*   uint64            four 16-bit limbs, most significant first           *)
(***************************************************************************)
EXTENDS Integers, Sequences, FiniteSets, TLC

VARIABLES
    registeredBlock,  \* guest.go:67  the registered block, or NoBlock
    pinnedData,       \* guest.go:72  the pinned slice: addresses of the pinned buffers
    pinnedBacking,    \* the backing array of pinnedData (what pinnedData[:0] keeps)
    heap,             \* the Go heap: address -> [live, len, doc]
    pc,               \* where the guest is: "idle", "<export>:entry", "<export>:body", "trapped"
    call,             \* the export call in flight: its name and arguments
    ret,              \* what the last completed export call returned to the host
    trace,            \* observation of the last call: was Handle/Lifecycle invoked, was input read
    callNo,           \* number of info, handle and lifecycle calls begun so far
    reserved,         \* the region malloc returned that the host holds for the input of
                      \* its next handle or lifecycle call, or NoRegion
    exported,         \* the block passed to the most recent call of Register or Export
    delivered,        \* the event types the registered block's Lifecycle was invoked
                      \* with since it was registered, in order
    probe             \* codec checks: the function applied, its input and its output

vars == <<registeredBlock, pinnedData, pinnedBacking, heap, pc, call, ret, trace, callNo,
          delivered, exported, reserved, probe>>

-----------------------------------------------------------------------------
(* Bounds of the model *)

\* longest []byte payload, in bytes
MaxData == 3
\* longest wire meta list, in entries
MaxMeta == 3
\* calls of info, handle and lifecycle the host makes in one behaviour
MaxCalls == 2

-----------------------------------------------------------------------------
(* Go nil values *)

NilBytes == <<-1>>
NilMap == [k \in {"<nil>"} |-> "<nil>"]
NilMeta == << <<"<nil>">> >>
NilStrings == <<"<nil>">>
NilPtr == [nil |-> TRUE]
NoBlock == "nil"
\* no region reserved
NoRegion == <<0, 0>>

\* len(x) for a slice
lenBytes(b) == IF b = NilBytes THEN 0 ELSE Len(b)
lenMeta(l) == IF l = NilMeta THEN 0 ELSE Len(l)
\* len(m) for a map
lenMap(m) == IF m = NilMap THEN 0 ELSE Cardinality(DOMAIN m)

-----------------------------------------------------------------------------
(* types.go: the enumerations *)

Continue == 0
Respond == 1
Drop == 2
ActionError == 3

PerNode == 0
Singleton == 1
PerChain == 2
PerExecution == 3

LcInit == 0
LcStart == 1
LcStop == 2

\* func (a Action) String() string
ActionString(a) ==
    CASE a = Continue -> "continue"
      [] a = Respond -> "respond"
      [] a = Drop -> "drop"
      [] a = ActionError -> "error"
      [] OTHER -> "continue"

\* a parser that turns an unknown name into an error
ParseActionStrict(s) ==
    CASE s = "continue" -> Continue
      [] s = "respond" -> Respond
      [] s = "drop" -> Drop
      [] s = "error" -> ActionError
      [] OTHER -> ActionError

\* func ParseAction(s string) Action
ParseAction(s) ==
    CASE s = "continue" -> Continue
      [] s = "respond" -> Respond
      [] s = "drop" -> Drop
      [] s = "error" -> ActionError
      [] OTHER -> Continue

\* func (m InstanceMode) String() string
InstanceModeString(m) ==
    CASE m = PerNode -> "per-node"
      [] m = Singleton -> "singleton"
      [] m = PerChain -> "per-chain"
      [] m = PerExecution -> "per-execution"
      [] OTHER -> "per-node"

\* func ParseInstanceMode(s string) InstanceMode
ParseInstanceMode(s) ==
    CASE s = "per-node" -> PerNode
      [] s = "singleton" -> Singleton
      [] s = "per-chain" -> PerChain
      [] s = "per-execution" -> PerExecution
      [] OTHER -> PerNode

\* func (t LifecycleType) String() string
LifecycleTypeString(t) ==
    CASE t = LcInit -> "init"
      [] t = LcStart -> "start"
      [] t = LcStop -> "stop"
      [] OTHER -> "init"

\* a parser that takes an unknown name for the last phase
ParseLifecycleTypeLast(s) ==
    CASE s = "init" -> LcInit
      [] s = "start" -> LcStart
      [] s = "stop" -> LcStop
      [] OTHER -> LcStop

\* func ParseLifecycleType(s string) LifecycleType
ParseLifecycleType(s) ==
    CASE s = "init" -> LcInit
      [] s = "start" -> LcStart
      [] s = "stop" -> LcStop
      [] OTHER -> LcInit

-----------------------------------------------------------------------------
(* encoding/base64, StdEncoding: the standard alphabet with '=' padding *)

B64Pad == 64

RECURSIVE b64Encode(_)
\* base64.StdEncoding.EncodeToString
b64Encode(b) ==
    IF Len(b) = 0 THEN <<>>
    ELSE IF Len(b) = 1 THEN
        << b[1] \div 4, (b[1] % 4) * 16, B64Pad, B64Pad >>
    ELSE IF Len(b) = 2 THEN
        << b[1] \div 4, (b[1] % 4) * 16 + (b[2] \div 16), (b[2] % 16) * 4, B64Pad >>
    ELSE
        << b[1] \div 4, (b[1] % 4) * 16 + (b[2] \div 16),
           (b[2] % 16) * 4 + (b[3] \div 64), b[3] % 64 >>
        \o b64Encode(SubSeq(b, 4, Len(b)))

\* the input is accepted: whole quanta of four symbols of the alphabet, padding
\* only as the last one or two symbols
b64WellFormed(s) ==
    /\ Len(s) % 4 = 0
    /\ \A i \in 1..Len(s) :
          \/ s[i] < B64Pad
          \/ /\ s[i] = B64Pad
             /\ \/ i = Len(s)
                \/ i = Len(s) - 1 /\ s[Len(s)] = B64Pad

\* the value of a symbol in a quantum (padding counts as zero bits)
b64Val(c) == IF c < B64Pad THEN c ELSE 0

RECURSIVE b64Bytes(_)
\* the bytes of a well-formed input
b64Bytes(s) ==
    IF Len(s) = 0 THEN <<>>
    ELSE
        LET v1 == b64Val(s[1])
            v2 == b64Val(s[2])
            v3 == b64Val(s[3])
            v4 == b64Val(s[4])
            three == << v1 * 4 + (v2 \div 16), (v2 % 16) * 16 + (v3 \div 4), (v3 % 4) * 64 + v4 >>
            n == IF s[3] = B64Pad THEN 1 ELSE IF s[4] = B64Pad THEN 2 ELSE 3
        IN SubSeq(three, 1, n) \o b64Bytes(SubSeq(s, 5, Len(s)))

\* base64.StdEncoding.DecodeString: (data, err)
b64Decode(s) ==
    IF b64WellFormed(s) THEN [err |-> FALSE, data |-> b64Bytes(s)]
    ELSE [err |-> TRUE, data |-> <<>>]

-----------------------------------------------------------------------------
(* wire.go: metadata *)

EmptyMap == [k \in {} |-> ""]

\* nil and empty taken as equal: a nil slice as the empty one, a nil map as
\* the empty one
normData(d) == IF d = NilBytes THEN <<>> ELSE d
normMap(m) == IF m = NilMap THEN EmptyMap ELSE m

\* the orders in which a for-range over a map with these keys can visit them
KeyOrders(K) ==
    {o \in [1..Cardinality(K) -> K] : \A i, j \in 1..Cardinality(K) : i # j => o[i] # o[j]}

\* func mapToMeta(m map[string]string) [][]string
\* Go does not fix the iteration order of a map: the value is the set of the
\* lists the call can return.
mapToMeta(m) ==
    IF m = NilMap THEN {<<>>}
    ELSE {[i \in 1..Cardinality(DOMAIN m) |-> <<o[i], m[o[i]]>>] : o \in KeyOrders(DOMAIN m)}

RECURSIVE metaToMapFrom(_, _)
\* the loop of metaToMap: m after the pairs of meta are visited in order
metaToMapFrom(m, meta) ==
    IF Len(meta) = 0 THEN m
    ELSE
        LET pair == Head(meta)
            m1 == IF Len(pair) = 2
                  THEN [k \in DOMAIN m \cup {pair[1]} |-> IF k = pair[1] THEN pair[2] ELSE m[k]]
                  ELSE m
        IN metaToMapFrom(m1, Tail(meta))

\* metaToMap visiting the list from its end: the first occurrence wins
metaToMapFirstWins(meta) ==
    IF meta = NilMeta THEN EmptyMap
    ELSE metaToMapFrom(EmptyMap, [i \in 1..Len(meta) |-> meta[Len(meta) + 1 - i]])

\* func metaToMap(meta [][]string) map[string]string
metaToMap(meta) ==
    IF meta = NilMeta THEN EmptyMap ELSE metaToMapFrom(EmptyMap, meta)

-----------------------------------------------------------------------------
(* wire.go: conversions between the domain types and their wire twins.      *)
(* An encoder that calls mapToMeta has as many results as the map has       *)
(* iteration orders: messageToWasm, responseToWasm, errorToWasm and         *)
(* resultToWasm give the set of the values the call can return.             *)

\* what a Go panic leaves in place of a value
GoPanic == [panic |-> TRUE]

\* the bytes themselves in place of their base64 text
encDataRaw(d) == IF lenBytes(d) > 0 THEN d ELSE <<>>

encData(d) == IF lenBytes(d) > 0 THEN b64Encode(d) ELSE <<>>
encMeta(m) == IF lenMap(m) > 0 THEN mapToMeta(m) ELSE {NilMeta}
\* a decData that hands on the text it could not decode
decDataKeepsText(s) ==
    IF s # <<>>
    THEN LET d == b64Decode(s) IN IF ~d.err THEN d.data ELSE s
    ELSE NilBytes

decData(s) ==
    IF s # <<>>
    THEN LET d == b64Decode(s) IN IF ~d.err THEN d.data ELSE NilBytes
    ELSE NilBytes
decMeta(l) == IF lenMeta(l) > 0 THEN metaToMap(l) ELSE NilMap

\* func messageToWasm(m *Message) *WasmMessage
messageToWasm(m) ==
    {[Kind |-> m.Kind, Data |-> encData(m.Data), Meta |-> mt] : mt \in encMeta(m.Meta)}

\* func wasmToMessage(wm *WasmMessage) *Message
wasmToMessage(wm) ==
    [Kind |-> wm.Kind, Data |-> decData(wm.Data), Meta |-> decMeta(wm.Meta)]

\* func responseToWasm(r *Response) *WasmResponse
responseToWasm(r) ==
    {[nil |-> FALSE, Data |-> encData(r.Data), Meta |-> mt] : mt \in encMeta(r.Meta)}

\* func wasmToResponse(wr *WasmResponse) *Response
wasmToResponse(wr) ==
    [nil |-> FALSE, Data |-> decData(wr.Data), Meta |-> decMeta(wr.Meta)]

\* an errorToWasm that reports every error under the code "internal"
errorToWasmInternal(e) ==
    {[nil |-> FALSE, Code |-> "internal", Message |-> e.Message, Meta |-> mt] :
        mt \in encMeta(e.Meta)}

\* func errorToWasm(e *WaferError) *WasmError
errorToWasm(e) ==
    {[nil |-> FALSE, Code |-> e.Code, Message |-> e.Message, Meta |-> mt] :
        mt \in encMeta(e.Meta)}

\* func wasmToError(we *WasmError) *WaferError
wasmToError(we) ==
    [nil |-> FALSE, Code |-> we.Code, Message |-> we.Message, Meta |-> decMeta(we.Meta)]

\* a resultToWasm that fills Response and Error in without the nil checks: a
\* Result without them gets empty ones
resultToWasmFilled(r) ==
    IF r.nil THEN {GoPanic}
    ELSE {[Action |-> ActionString(r.Action), Response |-> wresp, Error |-> werr] :
            wresp \in (IF ~r.Response.nil THEN responseToWasm(r.Response)
                       ELSE {[nil |-> FALSE, Data |-> <<>>, Meta |-> NilMeta]}),
            werr \in (IF ~r.Err.nil THEN errorToWasm(r.Err)
                      ELSE {[nil |-> FALSE, Code |-> "", Message |-> "", Meta |-> NilMeta]})}

\* func resultToWasm(r *Result) *WasmResult
\* r.Action dereferences r: a nil r is a nil-pointer panic.
resultToWasm(r) ==
    IF r.nil THEN {GoPanic}
    ELSE {[Action |-> ActionString(r.Action), Response |-> wresp, Error |-> werr] :
            wresp \in (IF ~r.Response.nil THEN responseToWasm(r.Response) ELSE {NilPtr}),
            werr \in (IF ~r.Err.nil THEN errorToWasm(r.Err) ELSE {NilPtr})}

\* func wasmToResult(wr *WasmResult) *Result
wasmToResult(wr) ==
    [nil |-> FALSE,
     Action |-> ParseAction(wr.Action),
     Response |-> IF ~wr.Response.nil THEN wasmToResponse(wr.Response) ELSE NilPtr,
     Err |-> IF ~wr.Error.nil THEN wasmToError(wr.Error) ELSE NilPtr]

-----------------------------------------------------------------------------
(* Fixed-width unsigned integers. A uint64 is four 16-bit limbs, most       *)
(* significant first; a uint32 is two. Shifts by 32 move whole limbs.       *)

RECURSIVE bitOr(_, _)
\* a | b
bitOr(a, b) ==
    IF a = 0 /\ b = 0 THEN 0
    ELSE (IF a % 2 = 1 \/ b % 2 = 1 THEN 1 ELSE 0) + 2 * bitOr(a \div 2, b \div 2)

RECURSIVE bitAnd(_, _)
\* a & b
bitAnd(a, b) ==
    IF a = 0 \/ b = 0 THEN 0
    ELSE (IF a % 2 = 1 /\ b % 2 = 1 THEN 1 ELSE 0) + 2 * bitAnd(a \div 2, b \div 2)

Zero64 == <<0, 0, 0, 0>>
Zero32 == <<0, 0>>
\* 0xFFFFFFFF as a uint64
LowMask == <<0, 0, 65535, 65535>>

\* uint64(x) for a uint32 x
u64(x) == <<0, 0, x[1], x[2]>>
\* uint32(x) for a uint64 x: the low 32 bits
u32(x) == <<x[3], x[4]>>
\* the uint32 and the uint64 with value n, for 0 <= n < 2^31
u32of(n) == <<n \div 65536, n % 65536>>
u64of(n) == <<0, 0, n \div 65536, n % 65536>>
\* x << 32 in uint64: the high 32 bits fall off
shl32(x) == <<x[3], x[4], 0, 0>>
\* x >> 32 in uint64
shr32(x) == <<0, 0, x[1], x[2]>>
or64(x, y) == [i \in 1..4 |-> bitOr(x[i], y[i])]
and64(x, y) == [i \in 1..4 |-> bitAnd(x[i], y[i])]

\* the packing without the shift
packWordNoShift(ptr, length) == or64(ptr, length)

\* guest.go:220-222  (ptr << 32) | length
packWord(ptr, length) == or64(shl32(ptr), length)

\* part_000:50  uint32(packed >> 32)
unpackPtr(packed) == u32(shr32(packed))
\* part_000:51  uint32(packed & 0xFFFFFFFF)
unpackLen(packed) == u32(and64(packed, LowMask))

-----------------------------------------------------------------------------
(* encoding/json, as the struct tags of wire.go and guest.go drive it.      *)
(* A JSON text is modelled by its parse: which fields it has and what they  *)
(* hold. The strings of the model hold no character that JSON escapes.      *)

Omitted == [omitted |-> TRUE]

\* a [][]string field: null for the nil slice, an array otherwise
jsonMeta(l) == IF l = NilMeta THEN [null |-> TRUE] ELSE [null |-> FALSE, items |-> l]

\* json.Marshal of a *WasmResult: response and error are omitempty pointers
jsonMarshalResult(wr) ==
    [t |-> "result",
     action |-> wr.Action,
     response |-> IF wr.Response.nil THEN Omitted
                  ELSE [omitted |-> FALSE, data |-> wr.Response.Data,
                        meta |-> jsonMeta(wr.Response.Meta)],
     error |-> IF wr.Error.nil THEN Omitted
               ELSE [omitted |-> FALSE, code |-> wr.Error.Code,
                     message |-> wr.Error.Message, meta |-> jsonMeta(wr.Error.Meta)]]

\* json.Marshal of a lifecycleResponse: error is omitempty
jsonMarshalLifecycle(ok, msg) ==
    [t |-> "lifecycle", ok |-> ok,
     error |-> IF msg = "" THEN Omitted ELSE [omitted |-> FALSE, text |-> msg]]

\* json.Marshal of a *WasmBlockInfo
jsonMarshalInfo(wi) ==
    [t |-> "info", name |-> wi.Name, version |-> wi.Version, interface |-> wi.Interface,
     summary |-> wi.Summary, instance_mode |-> wi.InstanceMode,
     allowed_modes |-> wi.AllowedModes]

RECURSIVE jsonStringsLen(_)
\* bytes of "s1","s2",...
jsonStringsLen(ss) ==
    IF Len(ss) = 0 THEN 0
    ELSE Len(Head(ss)) + 2 + (IF Len(ss) > 1 THEN 1 + jsonStringsLen(Tail(ss)) ELSE 0)

RECURSIVE jsonEntriesLen(_)
\* bytes of ["k","v"],["k","v"],...
jsonEntriesLen(l) ==
    IF Len(l) = 0 THEN 0
    ELSE 2 + jsonStringsLen(Head(l)) + (IF Len(l) > 1 THEN 1 + jsonEntriesLen(Tail(l)) ELSE 0)

jsonMetaLen(jm) == IF jm.null THEN 4 ELSE 2 + jsonEntriesLen(jm.items)

\* len(data) of the text json.Marshal returns
jsonLen(doc) ==
    CASE doc.t = "result" ->
            12 + Len(doc.action)
            + (IF doc.response.omitted THEN 0
               ELSE 12 + 9 + Len(doc.response.data) + 9 + jsonMetaLen(doc.response.meta) + 1)
            + (IF doc.error.omitted THEN 0
               ELSE 9 + 9 + Len(doc.error.code) + 13 + Len(doc.error.message) + 9
                    + jsonMetaLen(doc.error.meta) + 1)
            + 1
      [] doc.t = "lifecycle" ->
            (IF doc.ok THEN 10 ELSE 11)
            + (IF doc.error.omitted THEN 0 ELSE 10 + Len(doc.error.text) + 1)
            + 1
      [] doc.t = "info" ->
            9 + Len(doc.name) + 13 + Len(doc.version) + 15 + Len(doc.interface)
            + 13 + Len(doc.summary) + 19 + Len(doc.instance_mode) + 18
            + (IF doc.allowed_modes = NilStrings THEN 4 ELSE 2 + jsonStringsLen(doc.allowed_modes))
            + 1

(* The bytes the host hands to handle or lifecycle, by how they parse:      *)
(*   form "empty"     no bytes at all                                       *)
(*        "garbage"   bytes that begin no JSON value                        *)
(*        "truncated" a JSON object cut short                               *)
(*        "null"      the JSON value null                                   *)
(*        "scalar"    a JSON number                                         *)
(*        "object"    a JSON object; each field of the target struct is     *)
(*                    absent, null, of the wrong JSON type, or a value      *)

Absent(zero) == [p |-> "absent", v |-> zero]
Null(zero) == [p |-> "null", v |-> zero]
Mistyped(zero) == [p |-> "mistyped", v |-> zero]
Value(v) == [p |-> "value", v |-> v]

ZeroWasmMessage == [Kind |-> "", Data |-> <<>>, Meta |-> NilMeta]
ZeroWasmLifecycleEvent == [Type |-> "", Data |-> <<>>]

\* what json.Unmarshal stores in a field: a value is stored, null and a
\* missing key leave the field as it was (the zero value)
fieldValue(f, zero) == IF f.p = "value" THEN f.v ELSE zero

\* err.Error() of json.Unmarshal for a text that is not JSON, "" when it is
jsonSyntaxError(doc) ==
    CASE doc.form = "empty" -> "unexpected end of JSON input"
      [] doc.form = "truncated" -> "unexpected end of JSON input"
      [] doc.form = "garbage" -> "invalid character 'x' looking for beginning of value"
      [] OTHER -> ""

\* json.Unmarshal(msgData, &wmsg) with wmsg a zero WasmMessage: (wmsg, err)
jsonUnmarshalMessage(doc) ==
    IF jsonSyntaxError(doc) # "" THEN
        [err |-> TRUE, text |-> jsonSyntaxError(doc), v |-> ZeroWasmMessage]
    ELSE IF doc.form = "null" THEN
        [err |-> FALSE, text |-> "", v |-> ZeroWasmMessage]
    ELSE IF doc.form = "scalar" THEN
        [err |-> TRUE,
         text |-> "json: cannot unmarshal number into Go value of type waffle.WasmMessage",
         v |-> ZeroWasmMessage]
    ELSE IF doc.kind.p = "mistyped" \/ doc.data.p = "mistyped" \/ doc.meta.p = "mistyped" THEN
        [err |-> TRUE,
         text |-> "json: cannot unmarshal number into Go struct field of WasmMessage",
         v |-> ZeroWasmMessage]
    ELSE
        [err |-> FALSE, text |-> "",
         v |-> [Kind |-> fieldValue(doc.kind, ""),
                Data |-> fieldValue(doc.data, <<>>),
                Meta |-> fieldValue(doc.meta, NilMeta)]]

\* json.Unmarshal(eventData, &wevent) with wevent a zero WasmLifecycleEvent
jsonUnmarshalEvent(doc) ==
    IF jsonSyntaxError(doc) # "" THEN
        [err |-> TRUE, text |-> jsonSyntaxError(doc), v |-> ZeroWasmLifecycleEvent]
    ELSE IF doc.form = "null" THEN
        [err |-> FALSE, text |-> "", v |-> ZeroWasmLifecycleEvent]
    ELSE IF doc.form = "scalar" THEN
        [err |-> TRUE,
         text |-> "json: cannot unmarshal number into Go value of type waffle.WasmLifecycleEvent",
         v |-> ZeroWasmLifecycleEvent]
    ELSE IF doc.type.p = "mistyped" \/ doc.data.p = "mistyped" THEN
        [err |-> TRUE,
         text |-> "json: cannot unmarshal number into Go struct field of WasmLifecycleEvent",
         v |-> ZeroWasmLifecycleEvent]
    ELSE
        [err |-> FALSE, text |-> "",
         v |-> [Type |-> fieldValue(doc.type, ""), Data |-> fieldValue(doc.data, <<>>)]]

\* bytes of one member  "name":value  of a JSON object, 0 when the key is absent
jsonFieldLen(name, f, valueLen) ==
    CASE f.p = "absent" -> 0
      [] f.p = "null" -> Len(name) + 3 + 4
      [] f.p = "mistyped" -> Len(name) + 3 + 1
      [] f.p = "value" -> Len(name) + 3 + valueLen

\* bytes of a JSON object with members of these sizes (0: not a member)
jsonObjectLen(sizes) ==
    LET present == {i \in DOMAIN sizes : sizes[i] > 0}
        RECURSIVE sum(_)
        sum(i) == IF i = 0 THEN 0 ELSE sizes[i] + sum(i - 1)
    IN 2 + sum(Len(sizes)) + (IF present = {} THEN 0 ELSE Cardinality(present) - 1)

\* the number of bytes of an input text
inputLen(doc) ==
    CASE doc.form = "empty" -> 0
      [] doc.form = "garbage" -> 1
      [] doc.form = "truncated" -> 11
      [] doc.form = "null" -> 4
      [] doc.form = "scalar" -> 1
      [] doc.form = "object" /\ doc.t = "message" ->
            jsonObjectLen(<< jsonFieldLen("kind", doc.kind, Len(doc.kind.v) + 2),
                             jsonFieldLen("data", doc.data, Len(doc.data.v) + 2),
                             jsonFieldLen("meta", doc.meta, 2 + jsonEntriesLen(doc.meta.v)) >>)
      [] doc.form = "object" /\ doc.t = "event" ->
            jsonObjectLen(<< jsonFieldLen("type", doc.type, Len(doc.type.v) + 2),
                             jsonFieldLen("data", doc.data, Len(doc.data.v) + 2) >>)

-----------------------------------------------------------------------------
(* The blocks a module can register, and what their methods can return *)

Blocks == {"b1", "b2"}

NilModes == <<-1>>

\* Block.Info()
InfoOf(b) ==
    IF b = "b1"
    THEN [Name |-> "@example/one", Version |-> "1.0.0", Interface |-> "processor@v1",
          Summary |-> "first", InstanceMode |-> PerNode, AllowedModes |-> NilModes]
    ELSE [Name |-> "@example/two", Version |-> "2.1.0", Interface |-> "auth@v1",
          Summary |-> "second", InstanceMode |-> Singleton,
          AllowedModes |-> <<Singleton, PerChain>>]

\* a blockInfoToWasm that leaves AllowedModes out
blockInfoToWasmNoModes(info) ==
    [Name |-> info.Name, Version |-> info.Version, Interface |-> info.Interface,
     Summary |-> info.Summary, InstanceMode |-> InstanceModeString(info.InstanceMode),
     AllowedModes |-> NilStrings]

\* func blockInfoToWasm(info *BlockInfo) *WasmBlockInfo
blockInfoToWasm(info) ==
    [Name |-> info.Name, Version |-> info.Version, Interface |-> info.Interface,
     Summary |-> info.Summary, InstanceMode |-> InstanceModeString(info.InstanceMode),
     AllowedModes |-> IF lenBytes(info.AllowedModes) > 0
                      THEN [i \in 1..Len(info.AllowedModes) |->
                                InstanceModeString(info.AllowedModes[i])]
                      ELSE NilStrings]

\* the *Response and *WaferError values a handler puts in its Result
HandlerResponses ==
    { NilPtr,
      [nil |-> FALSE, Data |-> <<77, 97>>, Meta |-> [k \in {"k1"} |-> "a"]] }

HandlerErrors ==
    { NilPtr,
      [nil |-> FALSE, Code |-> "not_found", Message |-> "missing", Meta |-> NilMap] }

\* the values of type Action a handler can store: the four constants and an
\* integer that is none of them
HandlerActions == {Continue, Respond, Drop, ActionError, 7}

\* what Block.Handle can return: any *Result, nil included
HandlerResults ==
    {NilPtr} \cup
    {[nil |-> FALSE, Action |-> a, Response |-> r, Err |-> e] :
        a \in HandlerActions, r \in HandlerResponses, e \in HandlerErrors}

\* func (m *Message) SetMeta(key, value string)
SetMeta(m, key, value) ==
    [m EXCEPT !.Meta = [k \in DOMAIN normMap(m.Meta) \cup {key} |->
                           IF k = key THEN value ELSE m.Meta[k]]]

\* what Block.Handle does to the *Message it is handed before it returns:
\* nothing, or a call of SetMeta and an assignment to Data
HandlerEdits ==
    {[op |-> "none"], [op |-> "edit", key |-> "seen", value |-> "1", data |-> <<120>>]}

\* the Message after the handler's edit
HandlerEdit(m, e) ==
    IF e.op = "edit"
    THEN [SetMeta(m, e.key, e.value) EXCEPT !.Data = e.data]
    ELSE m

\* what Block.Lifecycle can return: nil or an error, whose Error() text may be
\* empty (errors.New(""))
LifecycleErrors ==
    {NilPtr, [nil |-> FALSE, text |-> "init failed"], [nil |-> FALSE, text |-> ""]}

-----------------------------------------------------------------------------
(* What the host passes to the exports *)

\* base64 texts of a "data" field:  "", "TQ==", "TWFu", and "T" (not base64)
HostDatas == {<<>>, <<19, 16, 64, 64>>, <<19, 22, 5, 46>>, <<19>>}

\* wire meta lists of a "meta" field
HostMetas == {<<>>, << <<"k1", "a">>, <<"k2", "b">>, <<"k1", "c">> >>}

NotObject(t, form) ==
    IF t = "message"
    THEN [t |-> t, form |-> form, kind |-> Absent(""), data |-> Absent(<<>>),
          meta |-> Absent(<<>>)]
    ELSE IF t = "reply"
    THEN [t |-> t, form |-> form, action |-> Absent(""), response |-> Absent(NilPtr),
          error |-> Absent(NilPtr)]
    ELSE [t |-> t, form |-> form, type |-> Absent(""), data |-> Absent(<<>>)]

NoBytes(t) == NotObject(t, "empty")

\* {"kind":"ping","data":"","meta":[]}
PingDoc ==
    [t |-> "message", form |-> "object", kind |-> Value("ping"), data |-> Value(<<>>),
     meta |-> Value(<<>>)]

\* the texts handed to handle: texts that are no JSON object, the ping
\* message, and the ping message with one member left out, null, of the wrong
\* type or holding another value
MessageDocs ==
    {NotObject("message", f) : f \in {"empty", "garbage", "truncated", "null", "scalar"}}
    \cup {PingDoc}
    \cup {[PingDoc EXCEPT !.kind = k] : k \in {Absent(""), Mistyped("")}}
    \cup {[PingDoc EXCEPT !.data = d] :
            d \in {Absent(<<>>), Mistyped(<<>>)} \cup {Value(x) : x \in HostDatas}}
    \cup {[PingDoc EXCEPT !.meta = m] :
            m \in {Absent(<<>>), Null(<<>>), Mistyped(<<>>)} \cup {Value(x) : x \in HostMetas}}
    \cup {[PingDoc EXCEPT !.kind = Absent(""), !.data = Absent(<<>>), !.meta = Absent(<<>>)]}

\* {"type":"init","data":"TQ=="}
InitDoc ==
    [t |-> "event", form |-> "object", type |-> Value("init"),
     data |-> Value(<<19, 16, 64, 64>>)]

\* the texts handed to lifecycle
EventDocs ==
    {NotObject("event", f) : f \in {"empty", "garbage", "null"}}
    \cup {[InitDoc EXCEPT !.type = ty] :
            ty \in {Absent(""), Mistyped("")} \cup {Value(x) : x \in {"init", "start", "stop", "bogus"}}}
    \cup {[InitDoc EXCEPT !.data = d] : d \in {Absent(<<>>), Value(<<19>>)}}

\* sizes the host asks malloc for
MallocSizes == {0, 32}

\* the addresses of guest memory the allocator hands out: 0x00010000 and
\* 0xFFFFFFF0
Addrs == {<<1, 0>>, <<65535, 65520>>}

-----------------------------------------------------------------------------
(* The guest: heap, pinned registry and exports *)

NoDoc == [t |-> "none"]
FreeCell == [live |-> FALSE, len |-> 0, doc |-> NoDoc]
\* a buffer no reference reaches any more: it stays allocated until collected,
\* and what it holds is no longer tracked
Garbage == [live |-> TRUE, len |-> 0, doc |-> [t |-> "garbage"]]
NoCall == [export |-> "none", ptr |-> Zero32, length |-> Zero32, bytes |-> NoDoc,
           size |-> 0, buf |-> Zero32]
NoRet == [kind |-> "none", value |-> Zero64]
\* what the body of the last export did: had it a block (block is "?" until
\* the body has run), did it read its input, which block's method it invoked,
\* with what argument, and what the method returned
NoTrace == [block |-> "?", read |-> FALSE, invoked |-> NoBlock, arg |-> NoDoc,
            after |-> NoDoc, result |-> NilPtr]
Seen == [NoTrace EXCEPT !.block = registeredBlock]
NoProbe == [fn |-> "none"]

\* the addresses the collector finds from its roots: the backing array of
\* pinnedData, and the slice handle and lifecycle make of their arguments
\* (msgData, eventData) once a block is registered
Reachable ==
    {pinnedBacking[i] : i \in DOMAIN pinnedBacking}
    \cup (IF pc \in {"handle:body", "lifecycle:body"} /\ registeredBlock # NoBlock
          THEN {call.ptr} ELSE {})

\* an entry statement that leaves the registry as it is
keepPinned == pinnedData

\* pinnedData = pinnedData[:0]: the length becomes 0, the backing array stays
clearPinned == <<>>

\* pinnedData = append(pinnedData, data): (slice, backing array)
appendPinned(pd, back, a) ==
    IF Len(pd) < Len(back)
    THEN [pinnedData |-> Append(pd, a), backing |-> [back EXCEPT ![Len(pd) + 1] = a]]
    ELSE [pinnedData |-> Append(pd, a), backing |-> Append(pd, a)]

\* packPtrLen without the append: the buffer is returned but not pinned
packPtrLenNoPin(pd, back, a, n) ==
    IF n = Zero64
    THEN [value |-> Zero64, pinnedData |-> pd, backing |-> back]
    ELSE [value |-> packWord(u64(a), n), pinnedData |-> pd, backing |-> back]

\* func packPtrLen(data []byte) uint64, for the slice at address a (a uint32)
\* with len(data) = n (a uint64): the value returned and the registry after
\* the call
packPtrLen(pd, back, a, n) ==
    IF n = Zero64
    THEN [value |-> Zero64, pinnedData |-> pd, backing |-> back]
    ELSE LET ap == appendPinned(pd, back, a)
         IN [value |-> packWord(u64(a), n), pinnedData |-> ap.pinnedData,
             backing |-> ap.backing]

Init ==
    /\ registeredBlock = NoBlock
    /\ pinnedData = <<>>
    /\ pinnedBacking = <<>>
    /\ heap = [a \in Addrs |-> FreeCell]
    /\ pc = "idle"
    /\ call = NoCall
    /\ ret = NoRet
    /\ trace = NoTrace
    /\ callNo = 0
    /\ delivered = <<>>
    /\ exported = NoBlock
    /\ reserved = NoRegion
    /\ probe = NoProbe

\* a Register that keeps the block registered first
RegisterKeepsFirst(b) ==
    /\ pc = "idle"
    /\ registeredBlock' = IF registeredBlock = NoBlock THEN b ELSE registeredBlock
    /\ delivered' = <<>>
    /\ exported' = b
    /\ UNCHANGED <<pinnedData, pinnedBacking, heap, pc, call, ret, trace, callNo, reserved,
                   probe>>

\* func Register(block Block), called by the module's main or init code
Register(b) ==
    /\ pc = "idle"
    /\ registeredBlock' = b
    /\ delivered' = <<>>
    /\ exported' = b
    /\ UNCHANGED <<pinnedData, pinnedBacking, heap, pc, call, ret, trace, callNo, reserved,
                   probe>>

\* the host calls an export: control enters the guest. The host makes a
\* sizing call only while it holds no region, for a call still to come.
HostCall(c) ==
    /\ pc = "idle"
    /\ callNo < MaxCalls
    /\ c.export = "malloc" => reserved = NoRegion
    /\ callNo' = IF c.export = "malloc" THEN callNo ELSE callNo + 1
    /\ pc' = c.export \o ":entry"
    /\ call' = c
    /\ trace' = NoTrace
    /\ reserved' = IF c.export \in {"handle", "lifecycle"} THEN NoRegion ELSE reserved
    /\ UNCHANGED <<registeredBlock, pinnedData, pinnedBacking, heap, ret, delivered, exported, probe>>

HostCallInfo == HostCall([NoCall EXCEPT !.export = "info"])

\* where the host writes the input of the next call: the region it reserved
\* with malloc, or else memory the guest's allocator does not manage (0x00000400)
HostPtr == IF reserved # NoRegion THEN reserved ELSE <<0, 1024>>

\* the host has written the text d at ptr and passes its length
HostCallHandle ==
    \E d \in MessageDocs :
        HostCall([NoCall EXCEPT !.export = "handle", !.ptr = HostPtr,
                                !.length = u32of(inputLen(d)), !.bytes = d])

HostCallLifecycle ==
    \E d \in EventDocs :
        HostCall([NoCall EXCEPT !.export = "lifecycle", !.ptr = HostPtr,
                                !.length = u32of(inputLen(d)), !.bytes = d])

HostCallMalloc ==
    \E n \in MallocSizes : HostCall([NoCall EXCEPT !.export = "malloc", !.size = n])

\* the garbage collector reclaims an object no root reaches. It runs when the
\* guest allocates: in make (malloc) and in the json calls of the other exports.
Collect ==
    /\ pc \in {"malloc:entry", "info:body", "handle:body", "lifecycle:body"}
    /\ \E a \in Addrs :
          /\ heap[a].live
          /\ a \notin Reachable
          /\ heap' = [heap EXCEPT ![a] = FreeCell]
    /\ UNCHANGED <<registeredBlock, pinnedData, pinnedBacking, pc, call, ret, trace, callNo,
                   delivered, exported, reserved, probe>>

\* the first statement of info, handle and lifecycle (guest.go:98, 121, 179)
ClearAtEntry ==
    /\ pc \in {"info:entry", "handle:entry", "lifecycle:entry"}
    /\ pinnedData' = clearPinned
    /\ pc' = call.export \o ":body"
    /\ ret' = NoRet
    /\ UNCHANGED <<registeredBlock, pinnedBacking, heap, call, trace, callNo, delivered, exported,
                   reserved, probe>>

\* the export returns the packed reference of a fresh buffer holding doc
Emit(doc, tr) ==
    \E a \in Addrs :
        /\ ~heap[a].live
        /\ LET n == jsonLen(doc)
               p == packPtrLen(pinnedData, pinnedBacking, a, u64of(n))
           IN /\ heap' = [x \in Addrs |->
                           IF x = a THEN [live |-> TRUE, len |-> n, doc |-> doc]
                           ELSE IF heap[x].live /\ heap[x].doc.t \notin {"zeroes"}
                                   /\ x \notin {p.backing[i] : i \in DOMAIN p.backing}
                                THEN Garbage
                                ELSE heap[x]]
              /\ pinnedData' = p.pinnedData
              /\ pinnedBacking' = p.backing
              /\ ret' = [kind |-> "packed", value |-> p.value]
        /\ pc' = "idle"
        /\ trace' = tr
        /\ UNCHANGED <<registeredBlock, call, callNo, probe>>

\* a Go panic inside an export: the module traps and the host sees the fault
Trap(tr) ==
    /\ pc' = "trapped"
    /\ ret' = [kind |-> "trap", value |-> Zero64]
    /\ trace' = tr
    /\ UNCHANGED <<registeredBlock, pinnedData, pinnedBacking, heap, call, callNo, probe>>

\* the export returns 0: nothing is allocated or pinned
ReturnZero(tr) ==
    /\ ret' = [kind |-> "packed", value |-> Zero64]
    /\ pc' = "idle"
    /\ trace' = tr
    /\ UNCHANGED <<registeredBlock, pinnedData, pinnedBacking, heap, call, callNo, probe>>

\* func info() uint64, after its first statement
InfoBody ==
    /\ pc = "info:body"
    /\ UNCHANGED <<delivered, exported, reserved>>
    /\ IF registeredBlock = NoBlock
       THEN ReturnZero(Seen)
       ELSE Emit(jsonMarshalInfo(blockInfoToWasm(InfoOf(registeredBlock))),
                 [Seen EXCEPT !.invoked = registeredBlock])

\* the WasmResult handle builds for an internal failure
internalError(msg) ==
    [Action |-> "error", Response |-> NilPtr,
     Error |-> [nil |-> FALSE, Code |-> "internal", Message |-> msg, Meta |-> NilMeta]]

\* unsafe.Slice((*byte)(unsafe.Pointer(uintptr(ptr))), length): the bytes the
\* host wrote at ptr, none when length is 0
inputBytes(c) == IF c.length = Zero32 THEN NoBytes(c.bytes.t) ELSE c.bytes

\* func handle(ptr uint32, length uint32) uint64, after its first statement
HandleBody ==
    /\ pc = "handle:body"
    /\ UNCHANGED <<delivered, exported, reserved>>
    /\ IF registeredBlock = NoBlock
       THEN Emit(jsonMarshalResult(internalError("no block registered")), Seen)
       ELSE LET u == jsonUnmarshalMessage(inputBytes(call))
                rd == [Seen EXCEPT !.read = TRUE]
            IN IF u.err
               THEN Emit(jsonMarshalResult(
                            internalError("failed to unmarshal message: " \o u.text)), rd)
               ELSE LET msg == wasmToMessage(u.v)
                    IN \E result \in HandlerResults, e \in HandlerEdits :
                         LET tr == [rd EXCEPT !.invoked = registeredBlock, !.arg = msg,
                                              !.after = HandlerEdit(msg, e),
                                              !.result = result]
                         IN \E wasmResult \in resultToWasm(result) :
                              IF wasmResult = GoPanic
                              THEN Trap(tr)
                              ELSE Emit(jsonMarshalResult(wasmResult), tr)

\* func wasmToLifecycleEvent(we *WasmLifecycleEvent) *LifecycleEvent
wasmToLifecycleEvent(we) ==
    [Type |-> ParseLifecycleType(we.Type), Data |-> decData(we.Data)]

\* func packOkResponse() uint64
packOkResponse(tr) == Emit(jsonMarshalLifecycle(TRUE, ""), tr)

\* a packErrorResponse that sets OK
packErrorResponseOk(msg, tr) == Emit(jsonMarshalLifecycle(TRUE, msg), tr)

\* func packErrorResponse(msg string) uint64
packErrorResponse(msg, tr) == Emit(jsonMarshalLifecycle(FALSE, msg), tr)

\* func lifecycle(ptr uint32, length uint32) uint64, after its first statement
LifecycleBody ==
    /\ pc = "lifecycle:body"
    /\ UNCHANGED <<exported, reserved>>
    /\ IF registeredBlock = NoBlock
       THEN packErrorResponse("no block registered", Seen) /\ UNCHANGED delivered
       ELSE LET u == jsonUnmarshalEvent(inputBytes(call))
                rd == [Seen EXCEPT !.read = TRUE]
            IN IF u.err
               THEN /\ packErrorResponse("failed to unmarshal lifecycle event: " \o u.text, rd)
                    /\ UNCHANGED delivered
               ELSE LET event == wasmToLifecycleEvent(u.v)
                    IN \E err \in LifecycleErrors :
                         LET tr == [rd EXCEPT !.invoked = registeredBlock, !.arg = event,
                                              !.result = err]
                         IN /\ delivered' = Append(delivered, event.Type)
                            /\ IF ~err.nil
                               THEN packErrorResponse(err.text, tr)
                               ELSE packOkResponse(tr)

\* func malloc(size uint32) uint32: buf := make([]byte, size)
MallocMake ==
    /\ pc = "malloc:entry"
    /\ IF call.size > 0
       THEN \E a \in Addrs :
              /\ ~heap[a].live
              /\ heap' = [heap EXCEPT ![a] = [live |-> TRUE, len |-> call.size,
                                              doc |-> [t |-> "zeroes"]]]
              /\ call' = [call EXCEPT !.buf = a]
       ELSE UNCHANGED <<heap, call>>
    /\ pc' = "malloc:body"
    /\ ret' = NoRet
    /\ UNCHANGED <<registeredBlock, pinnedData, pinnedBacking, trace, callNo, delivered, exported,
                   reserved, probe>>

\* func malloc: return uint32(uintptr(unsafe.Pointer(&buf[0]))); indexing an
\* empty buf panics
MallocReturn ==
    /\ pc = "malloc:body"
    /\ UNCHANGED <<delivered, exported>>
    /\ IF call.size = 0
       THEN Trap(Seen) /\ UNCHANGED reserved
       ELSE /\ ret' = [kind |-> "ptr", value |-> u32(u64(call.buf))]
            /\ reserved' = call.buf
            /\ pc' = "idle"
            /\ trace' = Seen
            /\ UNCHANGED <<registeredBlock, pinnedData, pinnedBacking, heap, call,
                           callNo, probe>>

RegisterAny == \E b \in Blocks \cup {NoBlock} : Register(b)

Next ==
    \/ RegisterAny
    \/ HostCallInfo
    \/ HostCallHandle
    \/ HostCallLifecycle
    \/ HostCallMalloc
    \/ ClearAtEntry
    \/ InfoBody
    \/ HandleBody
    \/ LifecycleBody
    \/ MallocMake
    \/ MallocReturn
    \/ Collect

Spec == Init /\ [][Next]_vars

-----------------------------------------------------------------------------
(* Context.Send: the host import's reply is a packed value and, when its    *)
(* length half is not zero, the bytes at its pointer half. A reply text has *)
(* the forms of an input text; its members are action, response and error.  *)

\* json.Unmarshal(resultData, &wresult) with wresult a zero WasmResult
jsonUnmarshalResult(doc) ==
    LET zero == [Action |-> "", Response |-> NilPtr, Error |-> NilPtr]
    IN IF jsonSyntaxError(doc) # "" THEN
           [err |-> TRUE, text |-> jsonSyntaxError(doc), v |-> zero]
       ELSE IF doc.form = "null" THEN
           [err |-> FALSE, text |-> "", v |-> zero]
       ELSE IF doc.form = "scalar" THEN
           [err |-> TRUE,
            text |-> "json: cannot unmarshal number into Go value of type waffle.WasmResult",
            v |-> zero]
       ELSE IF doc.action.p = "mistyped" \/ doc.response.p = "mistyped"
               \/ doc.error.p = "mistyped" THEN
           [err |-> TRUE,
            text |-> "json: cannot unmarshal number into Go struct field of WasmResult",
            v |-> zero]
       ELSE
           [err |-> FALSE, text |-> "",
            v |-> [Action |-> fieldValue(doc.action, ""),
                   Response |-> fieldValue(doc.response, NilPtr),
                   Error |-> fieldValue(doc.error, NilPtr)]]

\* Send with the error of Unmarshal ignored
SendIgnoresUnmarshalError(msg, packed, bytes) ==
    IF unpackLen(packed) = Zero32
    THEN [read |-> FALSE,
          result |-> [nil |-> FALSE, Action |-> Continue, Response |-> NilPtr,
                      Err |-> NilPtr]]
    ELSE [read |-> TRUE, result |-> wasmToResult(jsonUnmarshalResult(bytes).v)]

\* a Send that takes only the all-zero packed value as the empty reply
SendTestsWholeWord(msg, packed, bytes) ==
    IF packed = Zero64
    THEN [read |-> FALSE,
          result |-> [nil |-> FALSE, Action |-> Continue, Response |-> NilPtr,
                      Err |-> NilPtr]]
    ELSE LET u == jsonUnmarshalResult(IF unpackLen(packed) = Zero32
                                      THEN NotObject("reply", "empty") ELSE bytes)
         IN IF u.err
            THEN [read |-> TRUE,
                  result |-> [nil |-> FALSE, Action |-> ActionError, Response |-> NilPtr,
                              Err |-> [nil |-> FALSE, Code |-> "internal",
                                       Message |-> "failed to unmarshal result: " \o u.text,
                                       Meta |-> NilMap]]]
            ELSE [read |-> TRUE, result |-> wasmToResult(u.v)]

\* func (c *Context) Send(msg *Message) *Result, for the reply of hostSend:
\* the Result, and whether the bytes of the reply were read.
\* json.Marshal of a WasmMessage does not fail.
Send(msg, packed, bytes) ==
    IF unpackLen(packed) = Zero32
    THEN [read |-> FALSE,
          result |-> [nil |-> FALSE, Action |-> Continue, Response |-> NilPtr,
                      Err |-> NilPtr]]
    ELSE LET u == jsonUnmarshalResult(bytes)
         IN IF u.err
            THEN [read |-> TRUE,
                  result |-> [nil |-> FALSE, Action |-> ActionError, Response |-> NilPtr,
                              Err |-> [nil |-> FALSE, Code |-> "internal",
                                       Message |-> "failed to unmarshal result: " \o u.text,
                                       Meta |-> NilMap]]]
            ELSE [read |-> TRUE, result |-> wasmToResult(u.v)]

\* func (c *Context) Capabilities() []CapabilityInfo, for the packed value of
\* hostCapabilities and the outcome of json.Unmarshal(data, &caps)
Capabilities(packed, parsed) ==
    IF unpackLen(packed) = Zero32 THEN NilStrings
    ELSE IF parsed.err THEN NilStrings
    ELSE parsed.v

\* func (c *Context) IsCancelled() bool
IsCancelled(flag) == flag # Zero32

\* a Context method that appends the buffer it hands to the host to pinnedData
ContextEffectPinning(method, g, msg) ==
    [g |-> [g EXCEPT !.pinnedData = Append(g.pinnedData, <<0, 2048>>)], msg |-> msg]

\* the globals registeredBlock and pinnedData and the *Message argument after
\* a call of Send, Capabilities or IsCancelled that found them as g and msg:
\* the methods assign to neither global, and messageToWasm only reads its
\* argument
ContextEffect(method, g, msg) == [g |-> g, msg |-> msg]

\* func (d *DatabaseClient) Get(collection, id string) (*Result, error); List,
\* Create, Update and Delete, StorageClient.Put and Delete test the Result of
\* Send the same way
DatabaseClientGet(collection, id, packed, bytes) ==
    LET msg == [Kind |-> "svc.database.get", Data |-> NilBytes,
                Meta |-> [k \in {"collection", "id"} |->
                             IF k = "id" THEN id ELSE collection]]
        result == Send(msg, packed, bytes).result
    IN IF result.Action = ActionError /\ ~result.Err.nil
       THEN [result |-> result, err |-> result.Err]
       ELSE [result |-> result, err |-> NilPtr]

\* func (s *StorageClient) Get(bucket, key string) ([]byte, error); List and
\* the methods of CryptoClient test the Result of Send the same way
StorageClientGet(bucket, key, packed, bytes) ==
    LET msg == [Kind |-> "svc.storage.get", Data |-> NilBytes,
                Meta |-> [k \in {"bucket", "key"} |->
                             IF k = "key" THEN key ELSE bucket]]
        result == Send(msg, packed, bytes).result
    IN IF result.Action = ActionError /\ ~result.Err.nil
       THEN [result |-> NilBytes, err |-> result.Err]
       ELSE IF result.Response.nil
       THEN [result |-> NilBytes, err |-> NilPtr]
       ELSE [result |-> result.Response.Data, err |-> NilPtr]

\* a ConfigClient.Get that tests the response alone
ConfigClientGetAnyAction(key, packed, bytes) ==
    LET msg == [Kind |-> "svc.config.get", Data |-> NilBytes,
                Meta |-> [k \in {"key"} |-> key]]
        result == Send(msg, packed, bytes).result
    IN IF result.Response.nil
       THEN [result |-> result, value |-> <<>>, ok |-> FALSE]
       ELSE [result |-> result, value |-> normData(result.Response.Data), ok |-> TRUE]

\* func (c *ConfigClient) Get(key string) (string, bool): the Result of Send,
\* and the string (as its bytes) and the bool returned
ConfigClientGet(key, packed, bytes) ==
    LET msg == [Kind |-> "svc.config.get", Data |-> NilBytes,
                Meta |-> [k \in {"key"} |-> key]]
        result == Send(msg, packed, bytes).result
    IN IF result.Action = ActionError \/ result.Response.nil
       THEN [result |-> result, value |-> <<>>, ok |-> FALSE]
       ELSE [result |-> result, value |-> normData(result.Response.Data), ok |-> TRUE]

-----------------------------------------------------------------------------
(* helpers.go: the constructors of Result values *)

\* func ContinueResult() *Result
ContinueResult == [nil |-> FALSE, Action |-> Continue, Response |-> NilPtr, Err |-> NilPtr]

\* func DropResult() *Result
DropResult == [nil |-> FALSE, Action |-> Drop, Response |-> NilPtr, Err |-> NilPtr]

\* func RespondResult(resp *Response) *Result
RespondResult(resp) ==
    [nil |-> FALSE, Action |-> Respond, Response |-> resp, Err |-> NilPtr]

\* func ErrorResult(err *WaffleError) *Result
ErrorResult(err) ==
    [nil |-> FALSE, Action |-> ActionError, Response |-> NilPtr, Err |-> err]

\* func RespondData(data []byte, meta map[string]string) *Result; with the
\* meta they build, RespondWithStatus and ResponseBuilder.Respond
RespondData(data, meta) ==
    [nil |-> FALSE, Action |-> Respond,
     Response |-> [nil |-> FALSE, Data |-> data, Meta |-> meta], Err |-> NilPtr]

\* func Error(code, message string) *Result; ErrorWithMeta and ErrorStatus
\* with a meta that is not nil, the Err* helpers with their codes
ErrorWithMeta(code, message, meta) ==
    [nil |-> FALSE, Action |-> ActionError, Response |-> NilPtr,
     Err |-> [nil |-> FALSE, Code |-> code, Message |-> message, Meta |-> meta]]

\* func JsonRespond(v any) *Result, for the outcome of json.Marshal(v): its
\* bytes, or its error text; JsonRespondStatus adds resp.status to the meta
JsonRespond(marshal) ==
    IF marshal.err
    THEN ErrorWithMeta("internal", "failed to marshal response: " \o marshal.text, NilMap)
    ELSE RespondData(marshal.data, [k \in {"content-type"} |-> "application/json"])

-----------------------------------------------------------------------------
(* The codec and the packing convention on their own: each step applies one *)
(* function of wire.go, types.go or guest.go to an input drawn from the     *)
(* sets below and records the input and the output in probe.                *)

SeqsUpTo(S, n) == UNION {[1..k -> S] : k \in 0..n}

\* []byte values
CodecDatas == {NilBytes} \cup SeqsUpTo({0, 77, 255}, MaxData)

\* map[string]string values
CodecMaps ==
    {NilMap} \cup UNION {[K -> {"a", "b"}] : K \in SUBSET {"k1", "k2"}}

\* entries of a wire meta list: pairs, and arrays that are no pair
CodecEntries ==
    {<<k, v>> : k \in {"k1", "k2"}, v \in {"a", "b"}}
    \cup {<<>>, <<"k1">>, <<"k2", "a", "b">>}

\* [][]string values
CodecMetas == {NilMeta} \cup SeqsUpTo(CodecEntries, MaxMeta)

\* strings given to the enum parsers
CodecNames ==
    {"continue", "respond", "drop", "error", "per-node", "singleton", "per-chain",
     "per-execution", "init", "start", "stop", "", "Continue", "unknown-future-value",
     "bogus"}

\* integers converted to Action, InstanceMode and LifecycleType
CodecEnums == -1..5

CodecMessages ==
    {[Kind |-> k, Data |-> d, Meta |-> m] :
        k \in {"", "ping"}, d \in CodecDatas, m \in CodecMaps}

CodecResponses ==
    {[nil |-> FALSE, Data |-> d, Meta |-> m] : d \in CodecDatas, m \in CodecMaps}

CodecErrors ==
    {[nil |-> FALSE, Code |-> c, Message |-> t, Meta |-> m] :
        c \in {"internal", "not_found"}, t \in {"", "boom"}, m \in CodecMaps}

\* arbitrary (action, response, error) triples
CodecResults ==
    {[nil |-> FALSE, Action |-> a, Response |-> r, Err |-> e] :
        a \in {Continue, Respond, Drop, ActionError, 7},
        r \in {NilPtr,
               [nil |-> FALSE, Data |-> NilBytes, Meta |-> NilMap],
               [nil |-> FALSE, Data |-> <<0, 77, 255>>, Meta |-> [k \in {"k1", "k2"} |-> "a"]]},
        e \in {NilPtr,
               [nil |-> FALSE, Code |-> "not_found", Message |-> "", Meta |-> NilMap],
               [nil |-> FALSE, Code |-> "internal", Message |-> "boom",
                Meta |-> [k \in {"k1", "k2"} |-> "b"]]}}

\* arbitrary wire results, as json.Unmarshal can fill a WasmResult
CodecWireResults ==
    {[Action |-> a, Response |-> r, Error |-> e] :
        a \in {"continue", "respond", "drop", "error", "unknown-future-value", ""},
        r \in {NilPtr,
               [nil |-> FALSE, Data |-> <<>>, Meta |-> NilMeta],
               [nil |-> FALSE, Data |-> <<19, 16, 64, 64>>,
                Meta |-> << <<"k1", "a">>, <<"k1", "b">> >>]},
        e \in {NilPtr,
               [nil |-> FALSE, Code |-> "not_found", Message |-> "gone", Meta |-> <<>>]}}

\* addresses and lengths of buffers: 0x00000001, 0x00010000, 0x80000001,
\* 0xFFFFFFFF; lengths 0, 1, 0x10000, 0xFFFFFFFF and 0x100000000
CodecAddrs == {<<0, 1>>, <<1, 0>>, <<32768, 1>>, <<65535, 65535>>}
CodecLens == {Zero64, <<0, 0, 0, 1>>, <<0, 0, 1, 0>>, <<0, 0, 65535, 65535>>, <<0, 1, 0, 0>>}

ProbeStep(p) ==
    /\ probe.fn = "none"
    /\ probe' = p
    /\ UNCHANGED <<registeredBlock, pinnedData, pinnedBacking, heap, pc, call, ret, trace,
                   callNo, delivered, exported, reserved>>

ProbeParse ==
    \E s \in CodecNames :
        ProbeStep([fn |-> "parse", in |-> s, action |-> ParseAction(s),
                   mode |-> ParseInstanceMode(s), type |-> ParseLifecycleType(s)])

ProbeString ==
    \E v \in CodecEnums :
        ProbeStep([fn |-> "string", in |-> v, action |-> ActionString(v),
                   mode |-> InstanceModeString(v), type |-> LifecycleTypeString(v)])

ProbeMetaToMap ==
    \E l \in CodecMetas : ProbeStep([fn |-> "metaToMap", in |-> l, out |-> metaToMap(l)])

ProbePack ==
    \E a \in CodecAddrs, n \in CodecLens :
        LET p == packPtrLen(<<>>, <<>>, a, n)
        IN ProbeStep([fn |-> "pack", addr |-> a, len |-> n, out |-> p.value,
                      pinned |-> p.pinnedData,
                      ptr |-> unpackPtr(p.value), length |-> unpackLen(p.value)])

ProbeMessage ==
    \E m \in CodecMessages : \E wm \in messageToWasm(m) :
        ProbeStep([fn |-> "message", in |-> m, wire |-> wm, out |-> wasmToMessage(wm)])

ProbeResponse ==
    \E r \in CodecResponses : \E wr \in responseToWasm(r) :
        ProbeStep([fn |-> "response", in |-> r, wire |-> wr, out |-> wasmToResponse(wr)])

ProbeError ==
    \E e \in CodecErrors : \E we \in errorToWasm(e) :
        ProbeStep([fn |-> "error", in |-> e, wire |-> we, out |-> wasmToError(we)])

ProbeResult ==
    \E r \in CodecResults : \E wr \in resultToWasm(r) :
        ProbeStep([fn |-> "result", in |-> r, wire |-> wr, out |-> wasmToResult(wr)])

ProbeWireResult ==
    \E wr \in CodecWireResults :
        ProbeStep([fn |-> "wasmToResult", in |-> wr, out |-> wasmToResult(wr)])

\* {"action":"error","error":{"code":"not_found","message":"gone"}}
NotFoundReply ==
    [t |-> "reply", form |-> "object", action |-> Value("error"),
     response |-> Absent(NilPtr),
     error |-> Value([nil |-> FALSE, Code |-> "not_found", Message |-> "gone",
                      Meta |-> NilMeta])]

\* the texts the host answers a send with: texts that are no JSON object, the
\* not_found reply, and replies with other actions and members
ReplyDocs ==
    {NotObject("reply", f) : f \in {"garbage", "truncated", "null", "scalar"}}
    \cup {NotFoundReply}
    \cup {[NotFoundReply EXCEPT !.error = e] : e \in {Absent(NilPtr), Null(NilPtr), Mistyped(NilPtr)}}
    \cup {[NotFoundReply EXCEPT !.action = a, !.error = Absent(NilPtr)] :
            a \in {Absent(""), Mistyped(""), Value("continue"), Value("drop"),
                   Value("unknown-future-value")}}
    \cup {[NotFoundReply EXCEPT !.action = a, !.error = Absent(NilPtr),
                                !.response = Value([nil |-> FALSE, Data |-> d,
                                                    Meta |-> << <<"k1", "a">> >>])] :
            a \in {Value("respond"), Value("error")}, d \in {<<>>, <<19, 16, 64, 64>>}}

\* the packed values hostSend returns: 0, a pointer with length 0, and a
\* pointer with a length
ReplyWords == {Zero64, <<0, 2048, 0, 0>>, <<0, 2048, 0, 64>>}

ProbeSend ==
    \E m \in {[Kind |-> "svc.database.get", Data |-> NilBytes,
                Meta |-> [k \in {"collection", "id"} |-> "42"]]} :
    \E packed \in ReplyWords, bytes \in ReplyDocs :
        LET r == Send(m, packed, bytes)
        IN ProbeStep([fn |-> "send", in |-> m, packed |-> packed,
                      reply |-> IF r.read THEN bytes ELSE NotObject("reply", "empty"),
                      read |-> r.read, out |-> r.result])

\* a method of Context called by block logic, with the globals of the guest
\* as an export in flight can have them
ProbeContext ==
    \E b \in Blocks, pd \in {<<>>, << <<1, 0>> >>},
       m \in {[Kind |-> "svc.config.get", Data |-> NilBytes, Meta |-> [k \in {"key"} |-> "port"]],
              [Kind |-> "ping", Data |-> <<77, 97>>, Meta |-> NilMap]} :
        LET g == [registeredBlock |-> b, pinnedData |-> pd]
        IN \/ \E packed \in ReplyWords, bytes \in {NotFoundReply, NotObject("reply", "garbage")} :
                ProbeStep([fn |-> "context", method |-> "Send", before |-> [g |-> g, msg |-> m],
                           after |-> ContextEffect("Send", g, m),
                           out |-> Send(m, packed, bytes).result])
           \/ \E packed \in ReplyWords,
                 parsed \in {[err |-> TRUE, v |-> NilStrings],
                             [err |-> FALSE, v |-> <<[Kind |-> "log", Summary |-> "logging"]>>]} :
                ProbeStep([fn |-> "context", method |-> "Capabilities",
                           before |-> [g |-> g, msg |-> m],
                           after |-> ContextEffect("Capabilities", g, m),
                           out |-> Capabilities(packed, parsed)])
           \/ \E flag \in {Zero32, <<0, 1>>} :
                ProbeStep([fn |-> "context", method |-> "IsCancelled",
                           before |-> [g |-> g, msg |-> m],
                           after |-> ContextEffect("IsCancelled", g, m),
                           out |-> IsCancelled(flag)])

\* a constructor called with its arguments, nil arguments included
ProbeConstructor ==
    \/ \E r \in {ContinueResult, DropResult} :
          ProbeStep([fn |-> "construct", in |-> <<>>, out |-> r])
    \/ \E resp \in {NilPtr} \cup CodecResponses :
          ProbeStep([fn |-> "construct", in |-> <<"RespondResult", resp>>,
                     out |-> RespondResult(resp)])
    \/ \E err \in {NilPtr} \cup CodecErrors :
          ProbeStep([fn |-> "construct", in |-> <<"ErrorResult", err>>,
                     out |-> ErrorResult(err)])
    \/ \E d \in CodecDatas, m \in CodecMaps :
          ProbeStep([fn |-> "construct", in |-> <<"RespondData", d, m>>,
                     out |-> RespondData(d, m)])
    \/ \E code \in {"not_found", ""}, m \in CodecMaps :
          ProbeStep([fn |-> "construct", in |-> <<"ErrorWithMeta", code, m>>,
                     out |-> ErrorWithMeta(code, "missing", m)])
    \/ \E marshal \in {[err |-> FALSE, text |-> "", data |-> <<110, 117, 108, 108>>],
                        [err |-> TRUE, text |-> "json: unsupported type: chan int",
                         data |-> NilBytes]} :
          ProbeStep([fn |-> "construct", in |-> <<"JsonRespond", marshal>>,
                     out |-> JsonRespond(marshal)])

\* a capability wrapper called while the host answers its send
ProbeWrapper ==
    \E packed \in ReplyWords, bytes \in ReplyDocs :
        LET read == Send([Kind |-> "", Data |-> NilBytes, Meta |-> NilMap],
                         packed, bytes).read
            reply == IF read THEN bytes ELSE NotObject("reply", "empty")
        IN \/ ProbeStep([fn |-> "wrapper", in |-> "DatabaseClient.Get",
                         packed |-> packed, reply |-> reply, read |-> read,
                         out |-> DatabaseClientGet("users", "42", packed, bytes)])
           \/ ProbeStep([fn |-> "wrapper", in |-> "StorageClient.Get",
                         packed |-> packed, reply |-> reply, read |-> read,
                         out |-> StorageClientGet("avatars", "42", packed, bytes)])
           \/ ProbeStep([fn |-> "config", in |-> "ConfigClient.Get",
                         packed |-> packed, reply |-> reply, read |-> read,
                         out |-> ConfigClientGet("port", packed, bytes)])

\* the same entity encoded by two calls of its encoder
ProbeEncodeTwice ==
    \/ \E m \in CodecMessages : \E w1 \in messageToWasm(m), w2 \in messageToWasm(m) :
          ProbeStep([fn |-> "twice", in |-> m, first |-> w1.Meta, second |-> w2.Meta])
    \/ \E r \in CodecResponses : \E w1 \in responseToWasm(r), w2 \in responseToWasm(r) :
          ProbeStep([fn |-> "twice", in |-> r, first |-> w1.Meta, second |-> w2.Meta])
    \/ \E e \in CodecErrors : \E w1 \in errorToWasm(e), w2 \in errorToWasm(e) :
          ProbeStep([fn |-> "twice", in |-> e, first |-> w1.Meta, second |-> w2.Meta])

CodecNext ==
    \/ ProbeParse
    \/ ProbeString
    \/ ProbeMetaToMap
    \/ ProbePack
    \/ ProbeMessage
    \/ ProbeResponse
    \/ ProbeError
    \/ ProbeResult
    \/ ProbeWireResult
    \/ ProbeEncodeTwice
    \/ ProbeSend
    \/ ProbeWrapper
    \/ ProbeConstructor
    \/ ProbeContext

CodecSpec == Init /\ [][CodecNext]_vars

-----------------------------------------------------------------------------
(* Properties of the exports *)

\* the last call the host made was of export e and control is back at the host
Returned(e) == call.export = e /\ pc \in {"idle", "trapped"}

\* the address in the value the last export returned
RetAddr == unpackPtr(ret.value)

\* the last export returned a non-zero packed reference to a live buffer that
\* holds a JSON text of kind t, with the buffer's length in the low half
PointsToJson(t) ==
    /\ ret.kind = "packed"
    /\ ret.value # Zero64
    /\ RetAddr \in Addrs
    /\ heap[RetAddr].live
    /\ heap[RetAddr].doc.t = t
    /\ u32of(heap[RetAddr].len) = unpackLen(ret.value)

ReturnedDoc == heap[RetAddr].doc

\* a wire Result with action "error" and an error of code "internal"
IsInternalError(doc) ==
    /\ doc.t = "result"
    /\ doc.action = "error"
    /\ ~doc.error.omitted
    /\ doc.error.code = "internal"

\* C1: every call of handle, whatever block is or is not registered, whatever
\* bytes it is given and whatever the block's Handle returns (a nil Result
\* included), returns a non-zero packed reference to a JSON wire Result, and
\* when the block's Handle was not reached or its result could not be encoded
\* that Result has action "error" and error code "internal"; the host never
\* sees a fault.
C1_HandleAlwaysReturnsResult ==
    Returned("handle") =>
        /\ pc = "idle"
        /\ PointsToJson("result")
        /\ trace.invoked = NoBlock => IsInternalError(ReturnedDoc)

\* C2: the first statement of every export (info, handle, lifecycle, malloc)
\* empties the pinned registry: once an export is past its first statement
\* and has not pinned anything itself, pinnedData holds nothing.
C2_EveryExportClearsAtEntry ==
    pc \in {"info:body", "handle:body", "lifecycle:body", "malloc:body"} => pinnedData = <<>>

\* the buffers pinnedData[:len] holds
Pinned == {pinnedData[i] : i \in DOMAIN pinnedData}

\* C3: a buffer whose packed address an export returned stays in the pinned
\* registry, allocated and holding the JSON text it was emitted with, in every
\* state until the first statement of the next export runs; a buffer leaves
\* the registry only by that first statement.
C3_PinnedUntilNextCall ==
    /\ [](\A a \in Pinned :
            heap[a].live /\ heap[a].doc.t \in {"result", "info", "lifecycle"})
    /\ []((ret.kind = "packed" /\ ret.value # Zero64) =>
            /\ RetAddr \in Pinned
            /\ u32of(heap[RetAddr].len) = unpackLen(ret.value)
            /\ u32of(jsonLen(heap[RetAddr].doc)) = unpackLen(ret.value))
    /\ [][(\E a \in Pinned : a \notin Pinned') =>
            /\ pc \in {"info:entry", "handle:entry", "lifecycle:entry"}
            /\ pc' = call.export \o ":body"]_vars

\* the host holds the reference call 1 returned and has begun call 2, whose
\* first statement has not run yet
C3_Witness ==
    /\ callNo = 2
    /\ pc \in {"handle:entry", "malloc:entry"}
    /\ ret.kind = "packed"
    /\ ret.value # Zero64
    /\ RetAddr \in Pinned

\* the bytes are no JSON text, or are a JSON object without kind, data or meta
NotAnEnvelope(doc) ==
    \/ doc.form \in {"empty", "garbage", "truncated"}
    \/ /\ doc.form = "object"
       /\ doc.kind.p = "absent" \/ doc.data.p = "absent" \/ doc.meta.p = "absent"

\* C7: when the bytes given to handle are malformed JSON or lack one
\* of kind, data, meta, the block's Handle is not invoked and handle returns a
\* Result with action "error" and error code "internal".
C7_InvalidEnvelopeIsInternalError ==
    (Returned("handle") /\ trace.block # NoBlock /\ NotAnEnvelope(inputBytes(call))) =>
        /\ trace.invoked = NoBlock
        /\ pc = "idle"
        /\ PointsToJson("result")
        /\ IsInternalError(ReturnedDoc)

\* {"action":"error","error":{"code":"internal","message":"no block registered"}}
NoBlockTextAsStated ==
    [t |-> "result", action |-> "error", response |-> Omitted,
     error |-> [omitted |-> FALSE, code |-> "internal", message |-> "no block registered"]]

\* C8: handle called while no block is registered returns the text
\* {"action":"error","error":{"code":"internal","message":"no block registered"}}
\* and reads nothing from the input pointer.
C8_NoBlockTextAsStated ==
    (Returned("handle") /\ trace.block = NoBlock) =>
        /\ PointsToJson("result")
        /\ ReturnedDoc = NoBlockTextAsStated
        /\ ~trace.read

-----------------------------------------------------------------------------
(* Properties of the codec *)

\* C4: for every non-empty buffer with a 32-bit address and a length below
\* 2^32, packPtrLen returns (address << 32) | length, and packed >> 32 and
\* packed & 0xFFFFFFFF give back exactly the address and the length; for the
\* empty buffer packPtrLen returns 0.
C4_PackingInvariant ==
    probe.fn = "pack" =>
        /\ (probe.len # Zero64 /\ probe.len[1] = 0 /\ probe.len[2] = 0) =>
              /\ probe.out = <<probe.addr[1], probe.addr[2], probe.len[3], probe.len[4]>>
              /\ probe.ptr = probe.addr
              /\ probe.length = <<probe.len[3], probe.len[4]>>
        /\ probe.len = Zero64 => probe.out = Zero64

\* the buffer at 0xFFFFFFFF of length 0xFFFFFFFF has been packed and unpacked
C4_Witness ==
    /\ probe.fn = "pack"
    /\ probe.addr = <<65535, 65535>>
    /\ probe.len = <<0, 0, 65535, 65535>>
    /\ probe.out = <<65535, 65535, 65535, 65535>>
    /\ probe.ptr = probe.addr

\* the invariant of a Result, on the domain type
WellFormedResult(r) ==
    /\ r.Action \in {Continue, Drop} => r.Response.nil /\ r.Err.nil
    /\ r.Action = Respond => ~r.Response.nil
    /\ r.Action = ActionError => ~r.Err.nil

\* the invariant of a Result, on the wire twin
WellFormedWire(wr) ==
    /\ wr.Action \in {"continue", "drop"} => wr.Response.nil /\ wr.Error.nil
    /\ wr.Action = "respond" => ~wr.Response.nil
    /\ wr.Action = "error" => ~wr.Error.nil

\* C5: whatever (action, response, error) triple resultToWasm is handed or
\* wasmToResult decodes, what comes out is well-formed: continue and drop carry
\* neither response nor error, respond carries a response, error carries an
\* error; an inconsistent triple is never passed through.
C5_CodecOutputWellFormed ==
    /\ probe.fn = "result" => WellFormedWire(probe.wire)
    /\ probe.fn \in {"result", "wasmToResult"} => WellFormedResult(probe.out)

sameMessage(x, y) ==
    /\ x.Kind = y.Kind
    /\ normData(x.Data) = normData(y.Data)
    /\ normMap(x.Meta) = normMap(y.Meta)

sameResponse(x, y) ==
    /\ x.nil = y.nil
    /\ ~x.nil => /\ normData(x.Data) = normData(y.Data)
                 /\ normMap(x.Meta) = normMap(y.Meta)

sameError(x, y) ==
    /\ x.nil = y.nil
    /\ ~x.nil => /\ x.Code = y.Code
                 /\ x.Message = y.Message
                 /\ normMap(x.Meta) = normMap(y.Meta)

sameResult(x, y) ==
    /\ x.nil = y.nil
    /\ x.Action = y.Action
    /\ sameResponse(x.Response, y.Response)
    /\ sameError(x.Err, y.Err)

\* C6: for every Message, Response and Error, and every Result whose action is
\* one of the four defined variants, decoding any wire twin the encoder can
\* produce gives back the value, nil and empty data and meta taken as equal.
C6_RoundTrip ==
    /\ probe.fn = "message" => sameMessage(probe.out, probe.in)
    /\ probe.fn = "response" => sameResponse(probe.out, probe.in)
    /\ probe.fn = "error" => sameError(probe.out, probe.in)
    /\ (probe.fn = "result" /\ probe.in.Action \in {Continue, Respond, Drop, ActionError}) =>
          sameResult(probe.out, probe.in)

\* a message with three bytes of data and two meta keys went through a wire
\* twin whose meta list has k2 before k1, and came back
C6_Witness ==
    /\ probe.fn = "message"
    /\ probe.in.Data = <<0, 77, 255>>
    /\ probe.wire.Data = <<0, 4, 55, 63>>
    /\ probe.in.Meta # NilMap
    /\ DOMAIN probe.in.Meta = {"k1", "k2"}
    /\ probe.wire.Meta[1][1] = "k2"
    /\ probe.out = probe.in

\* C9: ParseAction, ParseInstanceMode and ParseLifecycleType return the
\* matching variant for each canonical name and Continue, PerNode and Init for
\* every other string, so no input makes a parser fail; and Parse(String(v)) = v
\* for every defined variant v.
C9_UnknownEnumDefaults ==
    /\ probe.fn = "parse" =>
          /\ probe.action = (CASE probe.in = "continue" -> Continue
                               [] probe.in = "respond" -> Respond
                               [] probe.in = "drop" -> Drop
                               [] probe.in = "error" -> ActionError
                               [] OTHER -> Continue)
          /\ probe.mode = (CASE probe.in = "per-node" -> PerNode
                             [] probe.in = "singleton" -> Singleton
                             [] probe.in = "per-chain" -> PerChain
                             [] probe.in = "per-execution" -> PerExecution
                             [] OTHER -> PerNode)
          /\ probe.type = (CASE probe.in = "init" -> LcInit
                             [] probe.in = "start" -> LcStart
                             [] probe.in = "stop" -> LcStop
                             [] OTHER -> LcInit)
    /\ probe.fn = "string" =>
          /\ probe.in \in {Continue, Respond, Drop, ActionError} =>
                ParseAction(probe.action) = probe.in
          /\ probe.in \in {PerNode, Singleton, PerChain, PerExecution} =>
                ParseInstanceMode(probe.mode) = probe.in
          /\ probe.in \in {LcInit, LcStart, LcStop} =>
                ParseLifecycleType(probe.type) = probe.in

\* a name no parser knows has been parsed by all three
C9_Witness ==
    /\ probe.fn = "parse"
    /\ probe.in = "unknown-future-value"
    /\ probe.action = Continue
    /\ probe.mode = PerNode
    /\ probe.type = LcInit

\* C10: metaToMap maps each key of a [key, value] pair of the list to the
\* value of the key's last occurrence, and its keys are exactly the keys of
\* the pairs of the list.
C10_MetaToMapLastWins ==
    probe.fn = "metaToMap" =>
        LET l == IF probe.in = NilMeta THEN <<>> ELSE probe.in
            pairs == {i \in DOMAIN l : Len(l[i]) = 2}
        IN /\ DOMAIN probe.out = {l[i][1] : i \in pairs}
           /\ \A i \in pairs :
                 (\A j \in pairs : j > i => l[j][1] # l[i][1]) =>
                     probe.out[l[i][1]] = l[i][2]

\* a list in which k1 occurs twice with different values has been decoded
C10_Witness ==
    /\ probe.fn = "metaToMap"
    /\ probe.in = << <<"k1", "a">>, <<"k2", "b">>, <<"k1", "b">> >>
    /\ probe.out["k1"] = "b"
    /\ probe.out["k2"] = "b"

\* C11: encoding the same Message, Response or Error twice gives the same
\* ordered list of [key, value] pairs both times.
C11_MetaEncodingOrderStable ==
    probe.fn = "twice" => probe.first = probe.second

\* C12: a Message, Response or Error whose meta map is nil or empty is written
\* with the "meta" member left out or with "meta":[] and with no other value,
\* and what was written decodes to a map with no entries.
C12_EmptyMetaOmittedOrEmptyList ==
    (probe.fn \in {"message", "response", "error"} /\ lenMap(probe.in.Meta) = 0) =>
        /\ \/ jsonMeta(probe.wire.Meta) = Omitted
           \/ jsonMeta(probe.wire.Meta) = [null |-> FALSE, items |-> <<>>]
        /\ lenMap(probe.out.Meta) = 0

\* the block's Handle ran and returned a Result with this action and neither
\* response nor error
HandlerReturnedBare(a) ==
    /\ Returned("handle")
    /\ trace.invoked # NoBlock
    /\ ~trace.result.nil
    /\ trace.result.Action = a
    /\ trace.result.Response.nil
    /\ trace.result.Err.nil

\* C13: when the block's Handle returns Continue (or Drop) with no response
\* and no error, handle returns the text {"action":"continue"} (or
\* {"action":"drop"}): the action member alone.
C13_BareContinueOrDrop ==
    /\ HandlerReturnedBare(Continue) =>
          /\ pc = "idle"
          /\ PointsToJson("result")
          /\ ReturnedDoc = [t |-> "result", action |-> "continue",
                            response |-> Omitted, error |-> Omitted]
          /\ unpackLen(ret.value) = u32of(21)
    /\ HandlerReturnedBare(Drop) =>
          /\ pc = "idle"
          /\ PointsToJson("result")
          /\ ReturnedDoc = [t |-> "result", action |-> "drop",
                            response |-> Omitted, error |-> Omitted]
          /\ unpackLen(ret.value) = u32of(17)

\* handle has returned for {"kind":"ping","data":"","meta":[]} and a block
\* that returned Continue
C13_Witness ==
    /\ HandlerReturnedBare(Continue)
    /\ inputBytes(call) = PingDoc
    /\ ReturnedDoc.action = "continue"

\* the wire names of the instance modes, in the order of their constants
ModeNames == <<"per-node", "singleton", "per-chain", "per-execution">>

\* C14: info returns 0 when no block is registered, and otherwise a non-zero
\* packed reference to the JSON descriptor of the registered block, whose
\* name, version, interface, summary, instance_mode and allowed_modes are those
\* of the block's Info().
C14_InfoDescribesRegisteredBlock ==
    Returned("info") =>
        IF trace.block = NoBlock
        THEN /\ pc = "idle"
             /\ ret = [kind |-> "packed", value |-> Zero64]
             /\ trace.invoked = NoBlock
        ELSE LET bi == InfoOf(trace.block)
             IN /\ pc = "idle"
                /\ PointsToJson("info")
                /\ trace.invoked = trace.block
                /\ ReturnedDoc.name = bi.Name
                /\ ReturnedDoc.version = bi.Version
                /\ ReturnedDoc.interface = bi.Interface
                /\ ReturnedDoc.summary = bi.Summary
                /\ ReturnedDoc.instance_mode = ModeNames[bi.InstanceMode + 1]
                /\ IF bi.AllowedModes = NilModes
                   THEN ReturnedDoc.allowed_modes = NilStrings
                   ELSE ReturnedDoc.allowed_modes =
                           [i \in 1..Len(bi.AllowedModes) |-> ModeNames[bi.AllowedModes[i] + 1]]

\* info has returned the descriptor of the block that allows two modes
C14_Witness ==
    /\ Returned("info")
    /\ trace.block = "b2"
    /\ PointsToJson("info")
    /\ ReturnedDoc.name = "@example/two"
    /\ ReturnedDoc.allowed_modes = <<"singleton", "per-chain">>

\* the event bytes are no JSON text, or a JSON value json.Unmarshal cannot
\* store in a WasmLifecycleEvent
EventUndecodable(doc) ==
    \/ doc.form \in {"empty", "garbage", "truncated", "scalar"}
    \/ doc.form = "object" /\ (doc.type.p = "mistyped" \/ doc.data.p = "mistyped")

\* what lifecycle answers with: "" for {"ok":true}, the message otherwise;
\* "?" stands for an unmarshal message the formula does not spell out
LifecycleAnswer ==
    LET d == inputBytes(call)
    IN IF trace.block = NoBlock THEN "no block registered"
       ELSE IF d.form = "empty"
            THEN "failed to unmarshal lifecycle event: unexpected end of JSON input"
       ELSE IF d.form = "garbage"
            THEN "failed to unmarshal lifecycle event: invalid character 'x' looking for beginning of value"
       ELSE IF EventUndecodable(d) THEN "?"
       ELSE IF trace.result.nil THEN "" ELSE trace.result.text

\* lifecycle returned an envelope, and {"ok":true} exactly when a block is
\* registered, the event decodes and Lifecycle returns nil
LifecycleEnvelope ==
    /\ pc = "idle"
    /\ PointsToJson("lifecycle")
    /\ ReturnedDoc.ok <=> /\ trace.block # NoBlock
                          /\ ~EventUndecodable(inputBytes(call))
                          /\ trace.result.nil
    /\ trace.invoked = (IF trace.block # NoBlock /\ ~EventUndecodable(inputBytes(call))
                        THEN trace.block ELSE NoBlock)
    /\ ReturnedDoc.ok => ReturnedDoc.error = Omitted

C16_OncePerPhaseInOrder ==
    /\ Len(delivered) <= 3
    /\ \A i \in DOMAIN delivered : delivered[i] = <<LcInit, LcStart, LcStop>>[i]

\* the phase lifecycle hands to the handler for the event in flight: that of
\* its type string, Init when the string is missing or names no phase
PhaseInFlight ==
    LET d == inputBytes(call)
        name == IF d.form = "object" /\ d.type.p = "value" THEN d.type.v ELSE ""
    IN CASE name = "init" -> LcInit
         [] name = "start" -> LcStart
         [] name = "stop" -> LcStop
         [] OTHER -> LcInit

\* C16, amended: the guest keeps no phase state. Every call of lifecycle with
\* a block registered and an event that decodes invokes the block's Lifecycle
\* exactly once with the event's phase (Init for an unrecognized type), in the
\* order the host delivers the events; no other step invokes it.
C16_HandlerInvokedPerEvent ==
    [][IF pc = "lifecycle:body" /\ pc' # pc
       THEN IF registeredBlock # NoBlock /\ ~EventUndecodable(inputBytes(call))
            THEN /\ delivered' = Append(delivered, PhaseInFlight)
                 /\ trace'.invoked = registeredBlock
                 /\ trace'.arg.Type = PhaseInFlight
            ELSE /\ delivered' = delivered
                 /\ trace'.invoked = NoBlock
       ELSE \/ delivered' = delivered
            \/ pc = "idle" /\ pc' = "idle" /\ delivered' = <<>>]_vars

\* the block was handed Init for the init event and Init again for an event
\* of type "bogus"
C16_Witness ==
    /\ Returned("lifecycle")
    /\ delivered = <<LcInit, LcInit>>
    /\ inputBytes(call).type = Value("bogus")
    /\ trace.invoked = registeredBlock

-----------------------------------------------------------------------------
(* Properties of malloc and of Register *)

\* malloc returned the address of a live region of exactly the requested size
MallocGaveRegion ==
    /\ pc = "idle"
    /\ ret.kind = "ptr"
    /\ ret.value \in Addrs
    /\ heap[ret.value].live
    /\ heap[ret.value].len = call.size

\* C19: for every requested size, 0 included, malloc returns to the host
\* without a fault the address of a region of exactly that many bytes.
C19_MallocEverySize == Returned("malloc") => MallocGaveRegion

\* the same for the sizes above 0
MallocPositiveSizeGivesRegion ==
    (Returned("malloc") /\ call.size > 0) => MallocGaveRegion

\* C20: one block is registered at a time and a later Register or Export
\* overwrites the earlier one: the block an export finds registered is the
\* one passed to the most recent call of Register, and a step of info,
\* handle or lifecycle that invokes a block's method invokes that block's
\* and no earlier one's.
C20_DispatchToLatestBlock ==
    [][/\ registeredBlock' = exported'
       /\ (pc \in {"info:body", "handle:body", "lifecycle:body"} /\ pc' # pc) =>
              trace'.invoked \in {NoBlock, exported}]_vars

\* b1 answered the last call of handle and Register has since replaced it
\* by b2
C20_Witness ==
    /\ Returned("handle")
    /\ trace.invoked = "b1"
    /\ exported = "b2"
    /\ registeredBlock = "b2"

\* handle or lifecycle is about to read its input from a region the host
\* reserved with malloc
ReadsReservedRegion ==
    /\ pc \in {"handle:body", "lifecycle:body"}
    /\ registeredBlock # NoBlock
    /\ call.length # Zero32
    /\ call.ptr \in Addrs

\* C26: a region malloc returned is still allocated, neither reclaimed nor
\* reused, when the handle or lifecycle call it was reserved for reads its
\* input from it, whatever calls the host made in between; and a step of
\* malloc leaves the pinned registry as it was.
C26_ReservedRegionLiveWhenRead ==
    /\ [](ReadsReservedRegion =>
            /\ heap[call.ptr].live
            /\ heap[call.ptr].doc.t = "zeroes")
    /\ [][(pc \in {"malloc:entry", "malloc:body"}) =>
            (pinnedData' = pinnedData /\ pinnedBacking' = pinnedBacking)]_vars

\* the same for a region reserved by the call just before the one that reads
MallocRegionLiveWhenReadAtOnce ==
    (ReadsReservedRegion /\ callNo = 1) =>
        /\ heap[call.ptr].live
        /\ heap[call.ptr].doc.t = "zeroes"

\* info, handle or lifecycle has just returned a packed value to the host
ExportReturnedPacked ==
    /\ call.export \in {"info", "handle", "lifecycle"}
    /\ pc = "idle"
    /\ ret.kind = "packed"

\* C27: whenever info, handle or lifecycle has just returned, the pinned
\* registry holds at most one buffer: the buffer whose address and length
\* are packed in the returned value when that value is not zero, and no
\* buffer when it is zero.
C27_AtMostOnePinned ==
    ExportReturnedPacked =>
        /\ Len(pinnedData) <= 1
        /\ ret.value = Zero64 => pinnedData = <<>>
        /\ ret.value # Zero64 =>
               /\ pinnedData = <<RetAddr>>
               /\ heap[RetAddr].live
               /\ u32of(heap[RetAddr].len) = unpackLen(ret.value)

\* the second call has returned its buffer after a call that returned a
\* buffer of its own
C27_Witness ==
    /\ ExportReturnedPacked
    /\ callNo = 2
    /\ call.export = "handle"
    /\ ret.value # Zero64
    /\ pinnedData = <<RetAddr>>
    /\ Len(pinnedBacking) = 1
    /\ \E a \in Addrs : a # RetAddr /\ heap[a] = Garbage

-----------------------------------------------------------------------------
(* Properties of Context.Send *)

\* the reply is not the JSON text of a result
Unparseable(doc) ==
    \/ doc.form \in {"garbage", "truncated", "scalar"}
    \/ /\ doc.form = "object"
       /\ "mistyped" \in {doc.action.p, doc.response.p, doc.error.p}

ReplyIsError(doc) ==
    /\ doc.form = "object"
    /\ ~Unparseable(doc)
    /\ doc.action = Value("error")

\* C18: whenever the Result the host answers a capability wrapper with has
\* action "error", the wrapper returns an error that is not nil, and when
\* that Result carries an error object the returned error has its code.
C18_CapabilityErrorPropagation ==
    (probe.fn = "wrapper" /\ probe.read /\ ReplyIsError(probe.reply)) =>
        /\ ~probe.out.err.nil
        /\ probe.reply.error.p = "value" =>
               probe.out.err.Code = probe.reply.error.v.Code

-----------------------------------------------------------------------------
(* Properties of handle's result path *)

\* the entries of the meta member of a JSON text, as a map
docMetaMap(jm) == IF jm.null THEN EmptyMap ELSE metaToMap(jm.items)

\* the block's Handle ran and returned a Result with one of the four actions
\* that obeys the invariant of a Result
HandlerReturnedWellFormed ==
    /\ Returned("handle")
    /\ trace.invoked # NoBlock
    /\ ~trace.result.nil
    /\ trace.result.Action \in {Continue, Respond, Drop, ActionError}
    /\ WellFormedResult(trace.result)

\* C21: a well-formed Result the block's Handle returns passes through
\* handle unchanged: the text handle returns has the Result's action, an
\* error member exactly when the Result has an error, with its code, message
\* and meta entries, and a response member exactly when the Result has a
\* response, with its data (once the base64 text is decoded) and meta entries.
C21_ResultPassesThrough ==
    HandlerReturnedWellFormed =>
        /\ pc = "idle"
        /\ PointsToJson("result")
        /\ ReturnedDoc.action = ActionString(trace.result.Action)
        /\ ParseAction(ReturnedDoc.action) = trace.result.Action
        /\ ReturnedDoc.error.omitted = trace.result.Err.nil
        /\ ~trace.result.Err.nil =>
               /\ ReturnedDoc.error.code = trace.result.Err.Code
               /\ ReturnedDoc.error.message = trace.result.Err.Message
               /\ docMetaMap(ReturnedDoc.error.meta) = normMap(trace.result.Err.Meta)
        /\ ReturnedDoc.response.omitted = trace.result.Response.nil
        /\ ~trace.result.Response.nil =>
               /\ ~b64Decode(ReturnedDoc.response.data).err
               /\ b64Decode(ReturnedDoc.response.data).data
                      = normData(trace.result.Response.Data)
               /\ docMetaMap(ReturnedDoc.response.meta)
                      = normMap(trace.result.Response.Meta)

\* handle has returned the not_found error of the block's Handle
C21_Witness ==
    /\ HandlerReturnedWellFormed
    /\ trace.result.Action = ActionError
    /\ trace.result.Response.nil
    /\ trace.result.Err.Code = "not_found"
    /\ ReturnedDoc.error.code = "not_found"

\* the message the host holds once handle has returned: the text it wrote
\* for the call. handle writes nothing at ptr, and a WasmResult has the
\* members action, response and error and none for a message.
HostMessage == wasmToMessage(jsonUnmarshalMessage(inputBytes(call)).v)

\* the block's Handle changed its message and returned a bare Continue
HandlerMutatedAndContinued ==
    /\ HandlerReturnedBare(Continue)
    /\ trace.after # trace.arg

\* C23: when the block's Handle changes the message it is handed and returns
\* Continue, what the host holds after handle has returned reflects the
\* changes: the message to forward is the message as the handler left it.
C23_MutatedMessageForwarded ==
    HandlerMutatedAndContinued =>
        /\ pc = "idle"
        /\ PointsToJson("result")
        /\ sameMessage(HostMessage, trace.after)

\* the text handed to the export in flight is an object whose data member
\* is a string that is not standard base64
InputDataNotBase64 ==
    /\ inputBytes(call).form = "object"
    /\ inputBytes(call).data.p = "value"
    /\ ~b64WellFormed(inputBytes(call).data.v)

\* C29: a data member that is not standard base64 is not a decode failure.
\* handle still invokes the block's Handle, with a Message of empty Data and
\* the kind and meta of the text, and returns no internal error; lifecycle
\* still invokes Lifecycle, with an event of empty Data and the type of the
\* text; and wasmToResponse gives a Response of empty Data with the meta of
\* the wire value.
C29_InvalidBase64IsEmptyData ==
    /\ (Returned("handle") /\ trace.block # NoBlock /\ InputDataNotBase64) =>
          /\ trace.invoked = trace.block
          /\ lenBytes(trace.arg.Data) = 0
          /\ trace.arg.Kind = fieldValue(inputBytes(call).kind, "")
          /\ trace.arg.Meta = decMeta(fieldValue(inputBytes(call).meta, NilMeta))
          /\ pc = "idle" => (PointsToJson("result") /\ ~IsInternalError(ReturnedDoc))
    /\ (Returned("lifecycle") /\ trace.block # NoBlock /\ InputDataNotBase64) =>
          /\ trace.invoked = trace.block
          /\ lenBytes(trace.arg.Data) = 0
          /\ trace.arg.Type = ParseLifecycleType(fieldValue(inputBytes(call).type, ""))
          /\ pc = "idle"
          /\ PointsToJson("lifecycle")
          /\ ReturnedDoc.ok = trace.result.nil
    /\ \A d \in HostDatas, m \in HostMetas :
          ~b64WellFormed(d) =>
              LET r == wasmToResponse([nil |-> FALSE, Data |-> d, Meta |-> m])
              IN /\ ~r.nil
                 /\ lenBytes(r.Data) = 0
                 /\ r.Meta = decMeta(m)

\* handle was handed {"kind":"ping","data":"T","meta":[]} and the block's
\* Handle ran with empty Data
C29_Witness ==
    /\ Returned("handle")
    /\ InputDataNotBase64
    /\ inputBytes(call).data.v = <<19>>
    /\ trace.invoked # NoBlock
    /\ trace.arg.Kind = "ping"
    /\ trace.arg.Data = NilBytes
    /\ pc = "idle"

-----------------------------------------------------------------------------
(* Properties of the constructors *)

\* C22: every Result a public constructor builds is well-formed whatever
\* its arguments, nil arguments included: Continue and Drop carry neither
\* response nor error, Respond carries a response that is not nil, and Error
\* carries an error that is not nil.
C22_ConstructorsWellFormed ==
    probe.fn = "construct" =>
        /\ ~probe.out.nil
        /\ probe.out.Action \in {Continue, Drop} =>
               probe.out.Response.nil /\ probe.out.Err.nil
        /\ probe.out.Action = Respond => ~probe.out.Response.nil
        /\ probe.out.Action = ActionError => ~probe.out.Err.nil

\* C28: when the length half of the packed value the send import returns
\* is zero, whatever its pointer half, Send returns a Result with action
\* Continue and neither response nor error, and reads no memory of the reply.
C28_EmptyReplyIsContinue ==
    (probe.fn = "send" /\ unpackLen(probe.packed) = Zero32) =>
        /\ ~probe.read
        /\ ~probe.out.nil
        /\ probe.out.Action = Continue
        /\ probe.out.Response.nil
        /\ probe.out.Err.nil

\* the host returned the pointer 0x00000800 with length 0
C28_Witness ==
    /\ probe.fn = "send"
    /\ unpackPtr(probe.packed) = <<0, 2048>>
    /\ unpackLen(probe.packed) = Zero32
    /\ probe.out.Action = Continue
    /\ ~probe.read

\* the host answered with a Result that carries a response and whose action
\* is not "error": the answer for a key that exists
ReplyHasValue(doc) ==
    /\ doc.form = "object"
    /\ ~Unparseable(doc)
    /\ doc.response.p = "value"
    /\ ParseAction(fieldValue(doc.action, "")) # ActionError

\* C25: ConfigClient.Get returns ("", false) whenever the Result of Send has
\* action Error or carries no response, the zero-length reply included, and
\* otherwise the data of the response with true; it returns true exactly for
\* the replies that carry a response under an action other than error.
C25_ConfigGet ==
    probe.fn = "config" =>
        /\ (probe.out.result.Action = ActionError \/ probe.out.result.Response.nil) =>
               /\ ~probe.out.ok
               /\ probe.out.value = <<>>
        /\ ~(probe.out.result.Action = ActionError \/ probe.out.result.Response.nil) =>
               /\ probe.out.ok
               /\ probe.out.value = normData(probe.out.result.Response.Data)
        /\ ~probe.read => ~probe.out.ok
        /\ probe.out.ok = (probe.read /\ ReplyHasValue(probe.reply))
        /\ (probe.read /\ ReplyHasValue(probe.reply)) =>
               probe.out.value = normData(decData(probe.reply.response.v.Data))

\* the host answered with the value "M" and Get returned it with true
C25_Witness ==
    /\ probe.fn = "config"
    /\ probe.read
    /\ probe.reply.action = Value("respond")
    /\ probe.out.ok
    /\ probe.out.value = <<77>>

-----------------------------------------------------------------------------
(* Frame conditions *)

====
